---- MODULE Spec2Model ----
(***************************************************************************)
(* The offline-first synchronisation engine of the task service:           *)
(* SyncService (services/syncService.ts), the parts of TaskService it      *)
(* calls, and the three tables Database.createTables creates.              *)
(*                                                                         *)
(* One action is one awaited storage or network operation together with    *)
(* the synchronous code that runs up to the next await: that is the grain  *)
(* at which two request handlers of the server interleave.                 *)
(***************************************************************************)
EXTENDS Integers, Sequences, FiniteSets, TLC

VARIABLES
    hasStatusColumn,  \* does table sync_queue have a column sync_status
    batchSize,        \* SyncService.batchSize, read from SYNC_BATCH_SIZE
    sync_queue,       \* table sync_queue, rows in rowid (insertion) order
    dead_letter,      \* table sync_dead_letter_queue, rows in insertion order
    tasks,            \* table tasks: task id -> row
    clock,            \* the last wall-clock reading handed out
    nextId,           \* number of the next addToSyncQueue call
    pc,               \* per sync() call: where it stands
    pendingItems,     \* per sync() call: const pendingItems
    drained,          \* history: ids this sync() call has read as pending
    arrived,          \* history: ids enqueued while this sync() call was running
    idx,              \* per sync() call: loop index (marking, or item in batch)
    batchIdx,         \* per sync() call: index of the batch in hand
    caught,           \* per sync() call: message of the error caught in
                      \* processBatchWithChecksum, or Null outside its catch
    cur,              \* per sync() call: the handler in hand (outcome, message)
    batchResult,      \* per sync() call: processBatchWithChecksum's batchResult
    result,           \* per sync() call: sync()'s result
    probeOk,          \* history: the probe of this sync() call succeeded
    sent,             \* history: ids this sync() call has posted to /batch
    remoteOk,         \* history: every answer of the remote so far was success
    dispatched,       \* history: id -> number of posts carrying it (capped)
    succeeded,        \* history: ids for which handleSyncSuccess was entered
    call              \* the application of a helper under examination: its
                      \* arguments and what it returned

vars == <<hasStatusColumn, batchSize, sync_queue, dead_letter, tasks, clock, nextId, pc,
          pendingItems, idx, batchIdx, caught, cur, batchResult, result,
          drained, arrived, probeOk, sent, remoteOk, dispatched, succeeded, call>>

dbVars == <<call, hasStatusColumn, batchSize, sync_queue, dead_letter, tasks, clock, nextId>>
histVars == <<drained, arrived, probeOk, sent, remoteOk, dispatched, succeeded>>

----------------------------------------------------------------------------
(* Bounds of the model *)

MaxEnqueued == 2
MaxClock == 1
MaxBatchSize == 2
MaxConcurrent == 1
NumPasses == 2
DispatchCap == 4
MaxStamp == 2
MaxItems == 4

(* Program constants *)

maxRetries == 3

\* tasks.id is TEXT (a uuid); TaskLess is the order text comparison gives
Tasks == {"t1", "t2"}
TaskLess(a, b) == a = "t1" /\ b = "t2"
Passes == 1..NumPasses
Ids == 1..MaxEnqueued
Operations == {"create", "update", "delete"}

NoId == "null"
ServerIds == {NoId, "srv"}
NoData == [present |-> FALSE, server_id |-> NoId]

\* the row TaskService.createTask inserts
NewTask == [sync_status |-> "pending", server_id |-> NoId, is_deleted |-> FALSE]
\* no row for the task id
NoTask == [sync_status |-> "no row", server_id |-> NoId, is_deleted |-> FALSE]
Null == "NULL"

Min(a, b) == IF a <= b THEN a ELSE b

----------------------------------------------------------------------------
(* SyncResult and SyncError *)

NewResult == [success |-> TRUE, synced_items |-> 0, failed_items |-> 0, errors |-> <<>>]

SyncError(task_id, operation, error) ==
    [task_id |-> task_id, operation |-> operation, error |-> error]

\* a catch block that leaves the result as it was
SyncCatchSilent(res, message) == res

\* sync()'s catch block
SyncCatch(res, message) ==
    [res EXCEPT !.success = FALSE,
                !.errors = Append(@, SyncError("global", "sync", message))]

\* a pass that reports success whatever it counted
PassSuccessAlways(failed_items) == TRUE

\* result.success = result.failed_items === 0
PassSuccess(failed_items) == failed_items = 0

----------------------------------------------------------------------------
(* Rows and the statements run on them *)

\* rows.map(row => ({...})) of getPendingSyncItemsChronological
RowToItem(row) ==
    [id |-> row.id, task_id |-> row.task_id, operation |-> row.operation,
     created_at |-> row.created_at, retry_count |-> row.retry_count,
     error_message |-> row.error_message]

Range(s) == {s[i] : i \in 1..Len(s)}

QueueIds == {r.id : r \in Range(sync_queue)}
DeadIds == {r.original_sync_queue_id : r \in Range(dead_letter)}

\* WHERE retry_count < ?
Eligible(q) == {r \in Range(q) : r.retry_count < maxRetries}

\* ORDER BY task_id, created_at ASC
KeyLeq(a, b) ==
    \/ TaskLess(a.task_id, b.task_id)
    \/ a.task_id = b.task_id /\ a.created_at <= b.created_at

\* Every row order the SELECT may return: the eligible rows, each once, sorted
\* by the ORDER BY key; rows with equal keys come in an order SQL leaves open.
DrainOrders(q) ==
    LET E == Eligible(q)
        n == Cardinality(E)
    IN {s \in [1..n -> E] :
          /\ \A i, j \in 1..n : i # j => s[i] # s[j]
          /\ \A i, j \in 1..n : i < j => KeyLeq(s[i], s[j])}

\* a DELETE that takes every row
removeFromSyncQueueAll(q, syncId) == <<>>

\* DELETE FROM sync_queue WHERE id = ?
removeFromSyncQueue(q, syncId) == SelectSeq(q, LAMBDA r : r.id # syncId)

\* UPDATE sync_queue SET sync_status = 'in-progress' WHERE id = ?
SetInProgress(q, syncId) ==
    [k \in 1..Len(q) |->
        IF q[k].id = syncId THEN [q[k] EXCEPT !.sync_status = "in-progress"] ELSE q[k]]

\* an UPDATE that changes no row
SetRetryLost(q, syncId, n, message) == q

\* UPDATE sync_queue SET retry_count = ?, error_message = ? WHERE id = ?
SetRetry(q, syncId, n, message) ==
    [k \in 1..Len(q) |->
        IF q[k].id = syncId
        THEN [q[k] EXCEPT !.retry_count = n, !.error_message = message]
        ELSE q[k]]

\* a dead-letter row that records the count of the failed attempt
DeadLetterRowNewCount(item, message, now) ==
    [id |-> item.id, task_id |-> item.task_id, operation |-> item.operation,
     created_at |-> item.created_at, retry_count |-> item.retry_count + 1,
     error_message |-> message, failed_at |-> now,
     original_sync_queue_id |-> item.id]

\* the row INSERT INTO sync_dead_letter_queue writes; its id is dlq_<item.id>
DeadLetterRow(item, message, now) ==
    [id |-> item.id, task_id |-> item.task_id, operation |-> item.operation,
     created_at |-> item.created_at, retry_count |-> item.retry_count,
     error_message |-> message, failed_at |-> now,
     original_sync_queue_id |-> item.id]

\* id TEXT PRIMARY KEY of sync_dead_letter_queue
DeadLetterKeyTaken(dlq, item) == \E r \in Range(dlq) : r.id = item.id

\* a dead-letter insert that writes no row
InsertDeadLetterLost(dlq, item, message, now) == dlq

InsertDeadLetter(dlq, item, message, now) == Append(dlq, DeadLetterRow(item, message, now))

\* TaskService: UPDATE tasks SET ... WHERE id = ?
markAsSynced(tk, t, serverId) ==
    [tk EXCEPT ![t] = [@ EXCEPT !.sync_status = "synced", !.server_id = serverId]]

updateTaskFromSync(tk, t, updates) ==
    [tk EXCEPT ![t] = [@ EXCEPT !.sync_status = "synced", !.server_id = updates.server_id]]

markSyncError(tk, t) == [tk EXCEPT ![t] = [@ EXCEPT !.sync_status = "error"]]

markSyncFailed(tk, t) == [tk EXCEPT ![t] = [@ EXCEPT !.sync_status = "failed"]]

\* new Date() / CURRENT_TIMESTAMP: the clock does not run backwards, and two
\* readings may be equal
Readings == {clock, Min(clock + 1, MaxClock)}

----------------------------------------------------------------------------
(* createChronologicalBatches: the loop over items, then the last batch *)

RECURSIVE BatchLoop(_, _, _, _)
BatchLoop(items, k, batches, currentBatch) ==
    IF k > Len(items)
    THEN IF Len(currentBatch) > 0 THEN Append(batches, currentBatch) ELSE batches
    ELSE IF Len(currentBatch) >= batchSize
         THEN BatchLoop(items, k + 1, Append(batches, currentBatch), <<items[k]>>)
         ELSE BatchLoop(items, k + 1, batches, Append(currentBatch, items[k]))

\* batching that puts everything into one batch
createOneBatch(items) == <<items>>

createChronologicalBatches(items) == BatchLoop(items, 1, <<>>, <<>>)

Batches(p) == createChronologicalBatches(pendingItems[p])
Batch(p) == Batches(p)[batchIdx[p]]

----------------------------------------------------------------------------
(* createBatchChecksum. A string is the sequence of its characters; an
   operation name counts as one character, which is none of '-' and '|'. *)

Digit(d) == <<"0", "1", "2", "3", "4", "5", "6", "7", "8", "9">>[d + 1]

RECURSIVE ToDigits(_)
\* the decimal digits `${n}` puts into a template string
ToDigits(n) ==
    IF n < 10 THEN <<Digit(n)>> ELSE Append(ToDigits(n \div 10), Digit(n % 10))

\* the template string without the epoch milliseconds
ItemStringNoStamp(item) ==
    item.id \o <<"-">> \o item.task_id \o <<"-">> \o <<item.operation>>

\* `${item.id}-${item.task_id}-${item.operation}-${item.created_at.getTime()}`
ItemString(item) ==
    item.id \o <<"-">> \o item.task_id \o <<"-">> \o <<item.operation>>
            \o <<"-">> \o ToDigits(item.created_at)

RECURSIVE Join(_, _)
\* strings.join('|')
Join(strings, k) ==
    IF k > Len(strings) THEN <<>>
    ELSE IF k = Len(strings) THEN strings[k]
         ELSE strings[k] \o <<"|">> \o Join(strings, k + 1)

\* createHash('md5').update(data).digest('hex'): the digest stands for the
\* string it was computed from (no two strings of the model collide)
md5(data) == [digest |-> data]

createBatchChecksum(items) ==
    md5(Join([k \in 1..Len(items) |-> ItemString(items[k])], 1))

\* the (id, task_id, operation, created_at) parts of queue items: ids as
\* addToSyncQueue makes them ('sync_', digits, '_', base 36: no '-', no '|'),
\* task ids as uuids (with '-'), creation times of one and of two digits
ChecksumItems ==
    [id : {<<"s", "1">>, <<"s", "1", "1">>},
     task_id : {<<"a">>, <<"a", "-", "a">>},
     operation : {"create", "update"},
     created_at : {1, 11}]

----------------------------------------------------------------------------
(* What the remote authority may put at one position of processed_items *)

Missing == [status |-> "missing", server_id |-> NoId, resolved_data |-> NoData, error |-> Null]

\* the outcomes of the response contract: success (with or without a remote id
\* and a resolved state), conflict with the remote state, error with a reason,
\* and no outcome at the position
WellFormed ==
    [status : {"success"}, server_id : ServerIds,
     resolved_data : {NoData} \cup [present : {TRUE}, server_id : ServerIds],
     error : {Null}]
    \cup [status : {"conflict"}, server_id : ServerIds,
          resolved_data : [present : {TRUE}, server_id : ServerIds], error : {Null}]
    \cup [status : {"error"}, server_id : {NoId}, resolved_data : {NoData},
          error : {"remote error"}]
    \cup {Missing}

\* outcomes outside the contract: a conflict without the remote state, an error
\* without a reason, a status that is none of the three
Malformed ==
    [status : {"conflict"}, server_id : ServerIds, resolved_data : {NoData},
     error : {Null}]
    \cup [status : {"error", "unknown"}, server_id : {NoId}, resolved_data : {NoData},
          error : {Null}]

NoCur == [kind |-> "none", message |-> Null]
NoCall == [fn |-> "none"]
Stamp(item) == [id |-> item.id, task_id |-> item.task_id, created_at |-> item.created_at]

----------------------------------------------------------------------------
\* The store after Database.initialize, before any request. createTables
\* creates sync_queue without a sync_status column; CREATE TABLE IF NOT EXISTS
\* keeps a table that is already in the database file, which may have the
\* column, so both kinds of store are start states. The task rows the
\* mutations refer to exist already.
Init ==
    /\ hasStatusColumn \in BOOLEAN
    /\ batchSize \in 1..MaxBatchSize
    /\ sync_queue = <<>>
    /\ dead_letter = <<>>
    /\ tasks = [t \in Tasks |-> NewTask]
    /\ clock = 0
    /\ nextId = 1
    /\ pc = [p \in Passes |-> "idle"]
    /\ pendingItems = [p \in Passes |-> <<>>]
    /\ idx = [p \in Passes |-> 0]
    /\ batchIdx = [p \in Passes |-> 0]
    /\ caught = [p \in Passes |-> Null]
    /\ cur = [p \in Passes |-> NoCur]
    /\ batchResult = [p \in Passes |-> NewResult]
    /\ result = [p \in Passes |-> NewResult]
    /\ drained = [p \in Passes |-> {}]
    /\ arrived = [p \in Passes |-> {}]
    /\ probeOk = [p \in Passes |-> FALSE]
    /\ sent = [p \in Passes |-> {}]
    /\ remoteOk = [p \in Passes |-> TRUE]
    /\ dispatched = [i \in Ids |-> 0]
    /\ succeeded = {}
    /\ call = NoCall

----------------------------------------------------------------------------
\* The continuation of `await syncService.sync()` in POST /sync runs as soon as
\* sync() returns, before any other callback of the event loop: while a result
\* is being returned no other handler takes a step.
NoneReturning == \A q \in Passes : pc[q] # "done"

(* SyncService.addToSyncQueue *)

\* a queue row that starts with one retry spent
NewQueueRowRetried(id, taskId, operation, now) ==
    [id |-> id, task_id |-> taskId, operation |-> operation, created_at |-> now,
     retry_count |-> 1, error_message |-> Null, sync_status |-> Null]

NewQueueRow(id, taskId, operation, now) ==
    [id |-> id, task_id |-> taskId, operation |-> operation, created_at |-> now,
     retry_count |-> 0, error_message |-> Null, sync_status |-> Null]

addToSyncQueue(taskId, operation) ==
    /\ NoneReturning
    /\ \E now \in Readings :
         /\ clock' = now
         /\ sync_queue' = Append(sync_queue, NewQueueRow(nextId, taskId, operation, now))
    /\ nextId' = nextId + 1
    /\ arrived' = [p \in Passes |-> IF pc[p] # "idle" THEN arrived[p] \cup {nextId}
                                                        ELSE arrived[p]]
    /\ UNCHANGED <<call, hasStatusColumn, batchSize, dead_letter, tasks, pc, pendingItems,
                   idx, batchIdx, caught, cur, batchResult, result>>
    /\ UNCHANGED <<drained, probeOk, sent, remoteOk, dispatched, succeeded>>

----------------------------------------------------------------------------
(* SyncService.sync *)

\* sync() returns res; its locals are gone
Return(p, res) ==
    /\ pc' = [pc EXCEPT ![p] = "done"]
    /\ result' = [result EXCEPT ![p] = res]
    /\ pendingItems' = [pendingItems EXCEPT ![p] = <<>>]
    /\ idx' = [idx EXCEPT ![p] = 0]
    /\ batchIdx' = [batchIdx EXCEPT ![p] = 0]
    /\ caught' = [caught EXCEPT ![p] = Null]
    /\ cur' = [cur EXCEPT ![p] = NoCur]
    /\ batchResult' = [batchResult EXCEPT ![p] = NewResult]

\* POST /sync answers with the result: res.json(...)
respond(p) ==
    /\ pc[p] = "done"
    /\ pc' = [pc EXCEPT ![p] = "idle"]
    /\ result' = [result EXCEPT ![p] = NewResult]
    /\ drained' = [drained EXCEPT ![p] = {}]
    /\ arrived' = [arrived EXCEPT ![p] = {}]
    /\ probeOk' = [probeOk EXCEPT ![p] = FALSE]
    /\ sent' = [sent EXCEPT ![p] = {}]
    /\ remoteOk' = [remoteOk EXCEPT ![p] = TRUE]
    /\ UNCHANGED <<pendingItems, idx, batchIdx, caught, cur, batchResult, dispatched,
                   succeeded>>
    /\ UNCHANGED dbVars

\* sync() is called: the result is initialised and the probe is sent
sync(p) ==
    /\ NoneReturning
    /\ pc[p] = "idle"
    /\ pc' = [pc EXCEPT ![p] = "probe"]
    /\ result' = [result EXCEPT ![p] = NewResult]
    /\ UNCHANGED <<pendingItems, idx, batchIdx, caught, cur, batchResult>>
    /\ UNCHANGED histVars
    /\ UNCHANGED dbVars

\* what axios.get of /health may come to: an answer with a 2xx status, or a
\* rejection (no answer in 5000 ms, name not resolved, connection refused, an
\* answer with another status)
HealthAnswers == {"ok", "timeout", "dns", "refused", "rejected"}

\* a probe that reports every remote as reachable
isOnlineAlways(answer) == TRUE

\* the value checkConnectivity returns: true after the awaited get, false from
\* the catch block
isOnline(answer) == answer = "ok"

\* checkConnectivity (probes: what its request may come to); on false sync()
\* throws 'No network connectivity'
checkConnectivity(p, probes) ==
    /\ NoneReturning
    /\ pc[p] = "probe"
    /\ \E answer \in probes :
         /\ probeOk' = [probeOk EXCEPT ![p] = (answer = "ok")]
         /\ IF isOnline(answer)
            THEN /\ pc' = [pc EXCEPT ![p] = "drain"]
                 /\ UNCHANGED <<result, pendingItems, idx, batchIdx, caught, cur,
                                batchResult>>
            ELSE Return(p, SyncCatch(result[p], "No network connectivity"))
    /\ UNCHANGED <<drained, arrived, sent, remoteOk, dispatched, succeeded>>
    /\ UNCHANGED dbVars

\* getPendingSyncItemsChronological, result.synced_items = pendingItems.length,
\* and the return on an empty list
getPendingSyncItemsChronological(p) ==
    /\ NoneReturning
    /\ pc[p] = "drain"
    /\ \E rows \in DrainOrders(sync_queue) :
         LET items == [k \in 1..Len(rows) |-> RowToItem(rows[k])]
             res == [result[p] EXCEPT !.synced_items = Len(items)]
         IN /\ drained' = [drained EXCEPT ![p] = {r.id : r \in Range(rows)}]
            /\ IF Len(items) = 0
               THEN Return(p, res)
               ELSE /\ pc' = [pc EXCEPT ![p] = "mark"]
                    /\ pendingItems' = [pendingItems EXCEPT ![p] = items]
                    /\ result' = [result EXCEPT ![p] = res]
                    /\ idx' = [idx EXCEPT ![p] = 1]
                    /\ UNCHANGED <<batchIdx, caught, cur, batchResult>>
    /\ UNCHANGED <<arrived, probeOk, sent, remoteOk, dispatched, succeeded>>
    /\ UNCHANGED dbVars

\* markItemsAsInProgress, one UPDATE per step. The statement names the column
\* sync_status: on a table without it the statement fails and sync() catches.
markItemsAsInProgress(p) ==
    /\ NoneReturning
    /\ pc[p] = "mark"
    /\ IF ~hasStatusColumn
       THEN /\ Return(p, SyncCatch(result[p], "no such column: sync_status"))
            /\ UNCHANGED sync_queue
       ELSE /\ sync_queue' = SetInProgress(sync_queue, pendingItems[p][idx[p]].id)
            /\ IF idx[p] < Len(pendingItems[p])
               THEN /\ idx' = [idx EXCEPT ![p] = idx[p] + 1]
                    /\ UNCHANGED <<pc, batchIdx>>
               ELSE /\ idx' = [idx EXCEPT ![p] = 0]
                    /\ batchIdx' = [batchIdx EXCEPT ![p] = 1]
                    /\ pc' = [pc EXCEPT ![p] = "post"]
            /\ UNCHANGED <<result, pendingItems, caught, cur, batchResult>>
    /\ UNCHANGED <<call, hasStatusColumn, batchSize, dead_letter, tasks, clock, nextId>>
    /\ UNCHANGED histVars

----------------------------------------------------------------------------
(* SyncService.processBatchWithChecksum *)


Goto(p, where, handler) ==
    /\ pc' = [pc EXCEPT ![p] = where]
    /\ cur' = [cur EXCEPT ![p] = handler]
    /\ UNCHANGED <<pendingItems, idx, batchIdx, caught, batchResult, result>>

\* an exception inside the try block: the catch block starts its loop over items
EnterCatch(p, message) ==
    /\ pc' = [pc EXCEPT ![p] = "item"]
    /\ idx' = [idx EXCEPT ![p] = 1]
    /\ caught' = [caught EXCEPT ![p] = message]
    /\ cur' = [cur EXCEPT ![p] = NoCur]
    /\ UNCHANGED <<pendingItems, batchIdx, batchResult, result>>

\* an exception inside the try block is caught by processBatchWithChecksum; one
\* inside its catch block leaves the method and is caught by sync()
Throw(p, message) ==
    IF caught[p] = Null
    THEN EnterCatch(p, message)
    ELSE Return(p, SyncCatch(result[p], message))

\* result.synced_items += ..., result.failed_items += ..., result.errors.push(...)
Fold(res, br) ==
    [res EXCEPT !.synced_items = @ + br.synced_items,
                !.failed_items = @ + br.failed_items,
                !.errors = @ \o br.errors]

\* the loop body for one item is over and has left batchResult br: the next item,
\* or the next batch, or the end of sync()
HandlerDone(p, br) ==
    IF idx[p] < Len(Batch(p))
    THEN /\ pc' = [pc EXCEPT ![p] = "item"]
         /\ idx' = [idx EXCEPT ![p] = idx[p] + 1]
         /\ cur' = [cur EXCEPT ![p] = NoCur]
         /\ batchResult' = [batchResult EXCEPT ![p] = br]
         /\ UNCHANGED <<pendingItems, batchIdx, caught, result>>
    ELSE IF batchIdx[p] < Len(Batches(p))
         THEN /\ pc' = [pc EXCEPT ![p] = "post"]
              /\ idx' = [idx EXCEPT ![p] = 0]
              /\ batchIdx' = [batchIdx EXCEPT ![p] = batchIdx[p] + 1]
              /\ caught' = [caught EXCEPT ![p] = Null]
              /\ cur' = [cur EXCEPT ![p] = NoCur]
              /\ batchResult' = [batchResult EXCEPT ![p] = NewResult]
              /\ result' = [result EXCEPT ![p] = Fold(result[p], br)]
              /\ UNCHANGED pendingItems
         ELSE LET res == Fold(result[p], br)
              IN Return(p, [res EXCEPT !.success = PassSuccess(res.failed_items)])

\* a resolved conflict that adds no entry
CountSuccessQuiet(br, item, kind) == [br EXCEPT !.synced_items = @ + 1]

\* batchResult.synced_items++, and the entry a resolved conflict adds
CountSuccess(br, item, kind) ==
    [br EXCEPT !.synced_items = @ + 1,
               !.errors = IF kind = "conflict"
                          THEN Append(@, SyncError(item.task_id, item.operation,
                                                   "Conflict resolved using last-write-wins"))
                          ELSE @]

\* an error that is not counted
CountErrorNone(br, item, kind, message) == br

\* batchResult.failed_items++, and the entry an error outcome or the catch adds
CountError(br, item, kind, message) ==
    [br EXCEPT !.failed_items = @ + 1,
               !.errors = IF kind \in {"error", "catch"}
                          THEN Append(@, SyncError(item.task_id, item.operation, message))
                          ELSE @]

\* axios.post of the batch in hand: the request is answered or rejected
\* (answers: the values `rejected` may take)
post(p, answers) ==
    /\ NoneReturning
    /\ pc[p] = "post"
    /\ LET ids == {Batch(p)[k].id : k \in 1..Len(Batch(p))}
       IN /\ sent' = [sent EXCEPT ![p] = @ \cup ids]
          /\ dispatched' = [i \in Ids |-> IF i \in ids
                                          THEN Min(dispatched[i] + 1, DispatchCap)
                                          ELSE dispatched[i]]
    /\ \E rejected \in answers :
         /\ caught' = [caught EXCEPT ![p] = IF rejected THEN "Network error" ELSE Null]
         /\ remoteOk' = [remoteOk EXCEPT ![p] = @ /\ ~rejected]
    /\ pc' = [pc EXCEPT ![p] = "item"]
    /\ idx' = [idx EXCEPT ![p] = 1]
    /\ UNCHANGED <<batchIdx, cur, batchResult, result, pendingItems, drained, arrived,
                   probeOk, succeeded>>
    /\ UNCHANGED dbVars

(* Conflict resolution. A task is a function from the keys the object has to
   their values: item.data is what JSON.parse gives back of the payload that
   was enqueued, resolved_data is what the remote sent. *)

Undefined == "undefined"
NaN == -1

\* t.key of an object that may lack the key
Get(t, key) == IF key \in DOMAIN t THEN t[key] ELSE Undefined

\* new Date(t.updated_at).getTime(): NaN for a missing updated_at
getTime(t) == IF "updated_at" \in DOMAIN t THEN t.updated_at ELSE NaN

\* a spread in which the loser's keys stay
SpreadLoserFirst(loser, winner) ==
    [key \in DOMAIN loser \cup DOMAIN winner |->
        IF key \in DOMAIN loser THEN loser[key] ELSE winner[key]]

\* {...loser, ...winner}: the winner's keys over the loser's
Spread(loser, winner) ==
    [key \in DOMAIN loser \cup DOMAIN winner |->
        IF key \in DOMAIN winner THEN winner[key] ELSE loser[key]]

\* a merge that is the spread alone
mergeTasksSpreadOnly(winner, loser, winnerSource, now) ==
    [key \in DOMAIN loser \cup DOMAIN winner |->
        IF key \in DOMAIN winner THEN winner[key] ELSE loser[key]]

\* mergeTasks (now: the reading of new Date())
mergeTasks(winner, loser, winnerSource, now) ==
    Spread(Spread(loser, winner),
           [id |-> IF winnerSource = "server" THEN Get(winner, "id") ELSE Get(loser, "id"),
            server_id |-> Get(winner, "server_id"),
            sync_status |-> "synced",
            last_synced_at |-> now,
            updated_at |-> now])

\* a resolver for which the remote wins a tie
resolveConflictRemoteOnTie(localTask, serverTask, now) ==
    IF getTime(localTask) # NaN /\ getTime(serverTask) # NaN
       /\ getTime(localTask) > getTime(serverTask)
    THEN mergeTasks(localTask, serverTask, "client", now)
    ELSE mergeTasks(serverTask, localTask, "server", now)

\* resolveConflictWithPriority: === and > are false when either side is NaN
resolveConflictWithPriority(localTask, serverTask, now) ==
    LET localTime == getTime(localTask)
        serverTime == getTime(serverTask)
        comparable == localTime # NaN /\ serverTime # NaN
    IN IF comparable /\ localTime = serverTime
       THEN mergeTasks(localTask, serverTask, "client", now)
       ELSE IF comparable /\ localTime > serverTime
            THEN mergeTasks(localTask, serverTask, "client", now)
            ELSE mergeTasks(serverTask, localTask, "server", now)

\* the payloads a conflict may find in item.data: the whole task, as the routes
\* enqueue it, with any updated_at and with or without a remote id; or only
\* the changed title, as a caller of addToSyncQueue may pass it
LocalTasks ==
    [id : {"t1"}, title : {"local title"}, description : {"local text"},
     completed : {TRUE}, updated_at : 0..MaxStamp, server_id : ServerIds,
     sync_status : {"pending"}]
    \cup {[title |-> "local title"]}

\* the remote states resolved_data may carry
ServerTasks ==
    [id : {"srv"}, title : {"remote title"}, description : {"remote text"},
     completed : {FALSE}, updated_at : 0..MaxStamp, server_id : ServerIds,
     sync_status : {"synced"}]

\* the remote state of an outcome of the model, which keeps its server_id only
RemoteTask(resolved_data) ==
    [id |-> "srv", title |-> "remote title", description |-> "remote text",
     completed |-> FALSE, updated_at |-> 1, server_id |-> resolved_data.server_id,
     sync_status |-> "synced"]

\* what handleSyncSuccess and updateTaskFromSync use of a resolved task
Resolved(task) == [present |-> TRUE, server_id |-> task.server_id]

\* handleSyncSuccess up to its first awaited statement
handleSyncSuccess(p, item, kind, serverId, resolvedTask) ==
    /\ succeeded' = succeeded \cup {Stamp(item)}
    /\ IF resolvedTask.present
       THEN /\ tasks' = updateTaskFromSync(tasks, item.task_id, resolvedTask)
            /\ Goto(p, "success_remove", [kind |-> kind, message |-> Null])
            /\ UNCHANGED sync_queue
       ELSE IF serverId # NoId
            THEN /\ tasks' = markAsSynced(tasks, item.task_id, serverId)
                 /\ Goto(p, "success_remove", [kind |-> kind, message |-> Null])
                 /\ UNCHANGED sync_queue
            ELSE /\ sync_queue' = removeFromSyncQueue(sync_queue, item.id)
                 /\ HandlerDone(p, CountSuccess(batchResult[p], item, kind))
                 /\ UNCHANGED tasks
    /\ UNCHANGED <<dead_letter, clock>>

\* error handling that never escalates
handleSyncErrorRetryOnly(p, item, kind, message) ==
    /\ sync_queue' = SetRetry(sync_queue, item.id, item.retry_count + 1, message)
    /\ Goto(p, "retry_mark", [kind |-> kind, message |-> message])
    /\ UNCHANGED <<dead_letter, tasks, clock>>

\* handleSyncError up to its first awaited statement
handleSyncError(p, item, kind, message) ==
    LET newRetryCount == item.retry_count + 1
    IN IF newRetryCount >= maxRetries
       THEN IF DeadLetterKeyTaken(dead_letter, item)
            THEN /\ Throw(p, "UNIQUE constraint failed")
                 /\ UNCHANGED <<sync_queue, dead_letter, tasks, clock>>
            ELSE /\ \E now \in Readings :
                      /\ clock' = now
                      /\ dead_letter' = InsertDeadLetter(dead_letter, item, message, now)
                 /\ Goto(p, "dead_letter_remove", [kind |-> kind, message |-> message])
                 /\ UNCHANGED <<sync_queue, tasks>>
       ELSE /\ sync_queue' = SetRetry(sync_queue, item.id, newRetryCount, message)
            /\ Goto(p, "retry_mark", [kind |-> kind, message |-> message])
            /\ UNCHANGED <<dead_letter, tasks, clock>>

\* one turn of the loop over the batch: the try block's loop reads the outcome at
\* the item's position, the catch block's loop gives every item the caught error
processItem(p, outcomes) ==
    /\ NoneReturning
    /\ pc[p] = "item"
    /\ LET item == Batch(p)[idx[p]]
       IN IF caught[p] # Null
          THEN /\ handleSyncError(p, item, "catch", caught[p])
               /\ UNCHANGED <<remoteOk, succeeded>>
          ELSE \E o \in outcomes :
                 /\ remoteOk' = [remoteOk EXCEPT ![p] = @ /\ o.status = "success"]
                 /\ CASE o.status = "missing" ->
                           /\ handleSyncError(p, item, "missing", "No response from server")
                           /\ UNCHANGED succeeded
                      [] o.status = "success" ->
                           handleSyncSuccess(p, item, "success", o.server_id, o.resolved_data)
                      [] o.status = "conflict" ->
                           IF o.resolved_data.present
                           THEN \E localTask \in LocalTasks :
                                  handleSyncSuccess(p, item, "conflict", o.server_id,
                                      Resolved(resolveConflictWithPriority(localTask,
                                                   RemoteTask(o.resolved_data), clock)))
                           ELSE /\ Throw(p, "TypeError")
                                /\ UNCHANGED <<sync_queue, dead_letter, tasks, clock, succeeded>>
                      [] o.status = "error" ->
                           /\ handleSyncError(p, item, "error",
                                              IF o.error = Null THEN "Unknown error" ELSE o.error)
                           /\ UNCHANGED succeeded
                      [] OTHER ->
                           /\ HandlerDone(p, batchResult[p])
                           /\ UNCHANGED <<sync_queue, dead_letter, tasks, clock, succeeded>>
    /\ UNCHANGED <<call, hasStatusColumn, batchSize, nextId, drained, arrived, probeOk, sent,
                   dispatched>>

\* handleSyncSuccess: await this.removeFromSyncQueue(item.id)
handleSyncSuccessRemove(p) ==
    /\ NoneReturning
    /\ pc[p] = "success_remove"
    /\ LET item == Batch(p)[idx[p]]
       IN /\ sync_queue' = removeFromSyncQueue(sync_queue, item.id)
          /\ HandlerDone(p, CountSuccess(batchResult[p], item, cur[p].kind))
    /\ UNCHANGED <<call, hasStatusColumn, batchSize, dead_letter, tasks, clock, nextId>>
    /\ UNCHANGED histVars

\* moveToDeadLetterQueue: await this.removeFromSyncQueue(item.id)
moveToDeadLetterQueueRemove(p) ==
    /\ NoneReturning
    /\ pc[p] = "dead_letter_remove"
    /\ sync_queue' = removeFromSyncQueue(sync_queue, Batch(p)[idx[p]].id)
    /\ Goto(p, "failed_mark", cur[p])
    /\ UNCHANGED <<call, hasStatusColumn, batchSize, dead_letter, tasks, clock, nextId>>
    /\ UNCHANGED histVars

\* handleSyncError: await this.taskService.markSyncFailed(item.task_id)
handleSyncErrorMarkFailed(p) ==
    /\ NoneReturning
    /\ pc[p] = "failed_mark"
    /\ LET item == Batch(p)[idx[p]]
       IN /\ tasks' = markSyncFailed(tasks, item.task_id)
          /\ HandlerDone(p, CountError(batchResult[p], item, cur[p].kind, cur[p].message))
    /\ UNCHANGED <<call, hasStatusColumn, batchSize, sync_queue, dead_letter, clock, nextId>>
    /\ UNCHANGED histVars

\* handleSyncError: await this.taskService.markSyncError(item.task_id)
handleSyncErrorMarkError(p) ==
    /\ NoneReturning
    /\ pc[p] = "retry_mark"
    /\ LET item == Batch(p)[idx[p]]
       IN /\ tasks' = markSyncError(tasks, item.task_id)
          /\ HandlerDone(p, CountError(batchResult[p], item, cur[p].kind, cur[p].message))
    /\ UNCHANGED <<call, hasStatusColumn, batchSize, sync_queue, dead_letter, clock, nextId>>
    /\ UNCHANGED histVars

----------------------------------------------------------------------------
\* One step of the server: callers are the POST /sync requests that may be in
\* flight, operations and limit the addToSyncQueue calls made, probes, answers
\* and outcomes what the remote authority may send.
Step(callers, operations, limit, probes, answers, outcomes) ==
    \/ \E t \in Tasks, op \in operations : nextId <= limit /\ addToSyncQueue(t, op)
    \/ \E p \in callers : sync(p)
    \/ \E p \in callers : respond(p)
    \/ \E p \in callers : checkConnectivity(p, probes)
    \/ \E p \in callers : getPendingSyncItemsChronological(p)
    \/ \E p \in callers : markItemsAsInProgress(p)
    \/ \E p \in callers : post(p, answers)
    \/ \E p \in callers : processItem(p, outcomes)
    \/ \E p \in callers : handleSyncSuccessRemove(p)
    \/ \E p \in callers : moveToDeadLetterQueueRemove(p)
    \/ \E p \in callers : handleSyncErrorMarkFailed(p)
    \/ \E p \in callers : handleSyncErrorMarkError(p)

\* One sync() call at a time, a remote authority that keeps to the response
\* contract
Next == Step({1}, Operations, MaxEnqueued, HealthAnswers, BOOLEAN, WellFormed)

Spec == Init /\ [][Next]_vars

\* a success that carries the remote id, and an error with a reason
Plain ==
    {[status |-> "success", server_id |-> "srv", resolved_data |-> NoData, error |-> Null],
     [status |-> "error", server_id |-> NoId, resolved_data |-> NoData,
      error |-> "remote error"]}

\* Two POST /sync requests in flight at once
NextConcurrent == Step(Passes, {"update"}, MaxConcurrent, HealthAnswers, {FALSE}, Plain)

SpecConcurrent == Init /\ [][NextConcurrent]_vars

\* POST /sync keeps being called, one call at a time; the remote authority is
\* reachable, answers every batch, and gives every item an outcome of the
\* contract
Answered == WellFormed \ {Missing}

NextFair == Step({1}, {"update"}, MaxEnqueued, {"ok"}, {FALSE}, Answered)

SpecFair == Init /\ [][NextFair]_vars /\ WF_vars(NextFair)

\* One POST /sync request at a time against a remote that also answers outside
\* the response contract
NextMalformed == Step({1}, {"update"}, MaxEnqueued, {"ok"}, {FALSE}, Plain \cup Malformed)

SpecMalformed == Init /\ [][NextMalformed]_vars

----------------------------------------------------------------------------
(* The helpers of SyncService applied on their own, one application in each
   behaviour *)

\* readings of new Date() later than every updated_at of the model
Nows == {MaxStamp + 1, MaxStamp + 2}

\* case 'conflict' for task t: resolveConflictWithPriority, then
\* handleSyncSuccess with the resolved task, which updateTaskFromSync writes;
\* rerun is what a second run of the resolver returns for the same versions
ResolveConflict(t) ==
    /\ call = NoCall
    /\ \E localTask \in LocalTasks, serverTask \in ServerTasks, now \in Nows, again \in Nows :
         LET resolvedTask == resolveConflictWithPriority(localTask, serverTask, now)
         IN /\ call' = [fn |-> "resolveConflictWithPriority", task_id |-> t,
                        localTask |-> localTask, serverTask |-> serverTask,
                        resolvedTask |-> resolvedTask,
                        rerun |-> resolveConflictWithPriority(localTask, serverTask, again)]
            /\ tasks' = updateTaskFromSync(tasks, t, Resolved(resolvedTask))
    /\ UNCHANGED <<hasStatusColumn, batchSize, sync_queue, dead_letter, clock, nextId, pc,
                   pendingItems, idx, batchIdx, caught, cur, batchResult, result>>
    /\ UNCHANGED histVars

\* every sequence of at most n elements of S
SeqsUpTo(S, n) == UNION {[1..k -> S] : k \in 0..n}

\* createChronologicalBatches over a list of items (items stand for themselves)
MakeBatches ==
    /\ call = NoCall
    /\ \E items \in SeqsUpTo(Ids, MaxItems) :
         call' = [fn |-> "createChronologicalBatches", items |-> items,
                  batches |-> createChronologicalBatches(items)]
    /\ UNCHANGED <<hasStatusColumn, batchSize, sync_queue, dead_letter, tasks, clock, nextId,
                   pc, pendingItems, idx, batchIdx, caught, cur, batchResult, result>>
    /\ UNCHANGED histVars

\* items with the items at positions i and j exchanged
Swap(items, i, j) ==
    [k \in 1..Len(items) |-> IF k = i THEN items[j] ELSE IF k = j THEN items[i] ELSE items[k]]

\* createBatchChecksum over a batch, over the same batch again, and over the
\* batch with two of its items exchanged
BatchChecksum ==
    /\ call = NoCall
    /\ \E items \in SeqsUpTo(ChecksumItems, MaxBatchSize) \ {<<>>} :
         \E i \in 1..Len(items), j \in 1..Len(items) :
            call' = [fn |-> "createBatchChecksum", items |-> items,
                     swapped |-> Swap(items, i, j),
                     checksum |-> createBatchChecksum(items),
                     again |-> createBatchChecksum(items),
                     swappedChecksum |-> createBatchChecksum(Swap(items, i, j))]
    /\ UNCHANGED <<hasStatusColumn, batchSize, sync_queue, dead_letter, tasks, clock, nextId,
                   pc, pendingItems, idx, batchIdx, caught, cur, batchResult, result>>
    /\ UNCHANGED histVars

NextPure ==
    \/ \E t \in Tasks : ResolveConflict(t)
    \/ MakeBatches
    \/ BatchChecksum

SpecPure == Init /\ [][NextPure]_vars

----------------------------------------------------------------------------
(* TaskService.createTask, updateTask and deleteTask, with the tasks table
   empty at the start, and the enqueueing the routes do after them *)

\* getTask: SELECT * FROM tasks WHERE id = ? AND is_deleted = 0
getTask(t) == tasks[t] # NoTask /\ ~tasks[t].is_deleted

\* createTask: a new uuid, one INSERT INTO tasks
createTask(t) ==
    /\ tasks[t] = NoTask
    /\ tasks' = [tasks EXCEPT ![t] = NewTask]
    /\ call' = [fn |-> "createTask", task_id |-> t, operation |-> "create"]
    /\ UNCHANGED <<hasStatusColumn, batchSize, sync_queue, dead_letter, clock, nextId, pc,
                   pendingItems, idx, batchIdx, caught, cur, batchResult, result>>
    /\ UNCHANGED histVars

\* updateTask of a task getTask finds: one UPDATE tasks
updateTask(t) ==
    /\ getTask(t)
    /\ tasks' = [tasks EXCEPT ![t] = [@ EXCEPT !.sync_status = "pending"]]
    /\ call' = [fn |-> "updateTask", task_id |-> t, operation |-> "update"]
    /\ UNCHANGED <<hasStatusColumn, batchSize, sync_queue, dead_letter, clock, nextId, pc,
                   pendingItems, idx, batchIdx, caught, cur, batchResult, result>>
    /\ UNCHANGED histVars

\* deleteTask of a task getTask finds: one UPDATE tasks SET is_deleted = 1
deleteTask(t) ==
    /\ getTask(t)
    /\ tasks' = [tasks EXCEPT ![t] = [@ EXCEPT !.is_deleted = TRUE,
                                                !.sync_status = "pending"]]
    /\ call' = [fn |-> "deleteTask", task_id |-> t, operation |-> "delete"]
    /\ UNCHANGED <<hasStatusColumn, batchSize, sync_queue, dead_letter, clock, nextId, pc,
                   pendingItems, idx, batchIdx, caught, cur, batchResult, result>>
    /\ UNCHANGED histVars

InitTaskService ==
    /\ hasStatusColumn \in BOOLEAN
    /\ batchSize \in 1..MaxBatchSize
    /\ sync_queue = <<>>
    /\ dead_letter = <<>>
    /\ tasks = [t \in Tasks |-> NoTask]
    /\ clock = 0
    /\ nextId = 1
    /\ pc = [p \in Passes |-> "idle"]
    /\ pendingItems = [p \in Passes |-> <<>>]
    /\ idx = [p \in Passes |-> 0]
    /\ batchIdx = [p \in Passes |-> 0]
    /\ caught = [p \in Passes |-> Null]
    /\ cur = [p \in Passes |-> NoCur]
    /\ batchResult = [p \in Passes |-> NewResult]
    /\ result = [p \in Passes |-> NewResult]
    /\ drained = [p \in Passes |-> {}]
    /\ arrived = [p \in Passes |-> {}]
    /\ probeOk = [p \in Passes |-> FALSE]
    /\ sent = [p \in Passes |-> {}]
    /\ remoteOk = [p \in Passes |-> TRUE]
    /\ dispatched = [i \in Ids |-> 0]
    /\ succeeded = {}
    /\ call = NoCall

\* the three operations of TaskService, and addToSyncQueue for a task that has
\* a row (routes/tasks.ts calls it after each of them)
NextTaskService ==
    \/ \E t \in Tasks : createTask(t)
    \/ \E t \in Tasks : updateTask(t)
    \/ \E t \in Tasks : deleteTask(t)
    \/ \E t \in Tasks, op \in Operations :
         /\ tasks[t] # NoTask
         /\ nextId <= MaxEnqueued
         /\ addToSyncQueue(t, op)

SpecTaskService == InitTaskService /\ [][NextTaskService]_vars

TypeOK ==
    /\ hasStatusColumn \in BOOLEAN
    /\ batchSize \in 1..MaxBatchSize
    /\ clock \in 0..MaxClock
    /\ nextId \in 1..(MaxEnqueued + 1)
    /\ \A p \in Passes : pc[p] \in {"idle", "probe", "drain", "mark", "post", "item",
                                    "success_remove", "dead_letter_remove",
                                    "failed_mark", "retry_mark", "done"}
    /\ Len(sync_queue) <= MaxEnqueued


----------------------------------------------------------------------------
SucceededIds == {a.id : a \in succeeded}
Enqueued == 1..(nextId - 1)
InFlight(p) == pc[p] \notin {"idle", "done"}
Globals(res) == {k \in 1..Len(res.errors) : res.errors[k].task_id = "global"}

\* C1: any two queued mutations of the same entity appear in the drained
\* sequence in the order in which they were enqueued (ids are handed out in
\* the order of the addToSyncQueue calls).
C1_DrainedInEnqueueOrder ==
    \A p \in Passes : \A i, j \in 1..Len(pendingItems[p]) :
        (i < j /\ pendingItems[p][i].task_id = pendingItems[p][j].task_id)
            => pendingItems[p][i].id < pendingItems[p][j].id

\* C2: no mutation has had its success (or resolved conflict) applied while an
\* earlier-created mutation of the same entity is still queued awaiting a retry.
C2_NoSuccessPastEarlierRetry ==
    \A a \in succeeded : \A r \in Range(sync_queue) :
        ~(r.task_id = a.task_id /\ r.created_at < a.created_at /\ r.retry_count > 0)

\* C3: a pass over n >= 1 queued mutations against a reachable remote that
\* answers success for every item returns synced_items = n, failed_items = 0,
\* success = true, and none of the n entries is left in the queue.
C3_AllSuccessPass ==
    \A p \in Passes :
        (pc[p] = "done" /\ probeOk[p] /\ remoteOk[p] /\ drained[p] # {})
            => /\ result[p].synced_items = Cardinality(drained[p])
               /\ result[p].failed_items = 0
               /\ result[p].success
               /\ drained[p] \cap QueueIds = {}

\* C4: a mutation that has never been answered with success is dispatched at
\* most maxRetries times; once its maxRetries-th dispatch has been handled it
\* is in the dead-letter queue exactly once and no longer in the sync queue.
C4_ExactlyMaxRetries ==
    \A id \in Enqueued \ SucceededIds :
        /\ dispatched[id] <= maxRetries
        /\ Cardinality({k \in 1..Len(dead_letter) :
                            dead_letter[k].original_sync_queue_id = id}) <= 1
        /\ (dispatched[id] = maxRetries /\ \A p \in Passes : ~InFlight(p))
               => (id \in DeadIds /\ id \notin QueueIds)

\* C5: when passes keep being run against a reachable remote authority that
\* answers every item with success, conflict or error, every queued mutation
\* eventually leaves the sync queue.
C5_EventuallyLeavesQueue ==
    \A id \in Ids : [](id \in QueueIds => <>(id \notin QueueIds))

\* C6: every enqueued mutation is still in the sync queue, or was removed
\* after a success / resolved-conflict outcome for it, or is in the
\* dead-letter queue.
C6_NoOperationLost ==
    \A id \in Enqueued : id \in QueueIds \/ id \in SucceededIds \/ id \in DeadIds

\* One mutation has left the queue after a success and another one has left it
\* for the dead-letter queue.
C6_Witness ==
    /\ \E id \in SucceededIds : id \notin QueueIds
    /\ \E id \in DeadIds : id \notin QueueIds /\ id \notin SucceededIds

\* C7: a sync() call whose connectivity probe failed returns success = false,
\* synced_items = 0, failed_items = 0 and exactly one error entry, whose
\* task_id is 'global'; it has sent no batch, and its two steps (the call and
\* the failed probe) leave the sync queue, the dead-letter queue and the task
\* rows as they were.
C7_ProbeFailure ==
    /\ [](\A p \in Passes : (pc[p] = "done" /\ ~probeOk[p]) =>
            /\ ~result[p].success
            /\ result[p].synced_items = 0
            /\ result[p].failed_items = 0
            /\ Len(result[p].errors) = 1
            /\ result[p].errors[1].task_id = "global"
            /\ sent[p] = {})
    /\ [][\A p \in Passes :
            (\/ pc[p] = "idle" /\ pc'[p] = "probe"
             \/ pc[p] = "probe" /\ pc'[p] = "done") =>
                UNCHANGED <<sync_queue, dead_letter, tasks>>]_vars

\* A sync() call has returned after a failed probe while mutations were queued.
C7_Witness ==
    \E p \in Passes : pc[p] = "done" /\ ~probeOk[p] /\ sync_queue # <<>>

\* C8: in every returned SyncResult, success is true exactly when
\* failed_items is 0.
C8_SuccessIffNoFailedItems ==
    \A p \in Passes :
        pc[p] = "done" => (result[p].success <=> result[p].failed_items = 0)

\* C8 (amended): in every returned SyncResult, success is true exactly when
\* failed_items is 0 and the result carries no 'global' error entry.
C8_SuccessIffNoFailedItemsNoGlobal ==
    \A p \in Passes :
        pc[p] = "done" =>
            (result[p].success <=>
                (result[p].failed_items = 0 /\ Globals(result[p]) = {}))

\* A pass has run to completion with at least one failed item.
C8_Witness ==
    \E p \in Passes :
        /\ pc[p] = "done"
        /\ result[p].failed_items > 0
        /\ Globals(result[p]) = {}
        /\ ~result[p].success

\* C9: a sync() call whose probe succeeded returns without a 'global' error
\* entry, having dispatched every mutation it read as pending.
C9_RunsToCompletion ==
    \A p \in Passes :
        (pc[p] = "done" /\ probeOk[p]) =>
            (Globals(result[p]) = {} /\ drained[p] \subseteq sent[p])

\* C10: no queue entry is submitted to the remote authority by two sync()
\* calls that are in flight at the same time.
C10_NoDoubleSubmit ==
    \A p, q \in Passes :
        (p # q /\ InFlight(p) /\ InFlight(q)) => sent[p] \cap sent[q] = {}

\* a step taken by sync() call p
PassStep(p) == pc'[p] # pc[p] \/ idx'[p] # idx[p]

\* the queue row of a mutation nobody has touched since addToSyncQueue
Untouched(id) ==
    \E r \in Range(sync_queue) :
        r.id = id /\ r.retry_count = 0 /\ r.error_message = Null /\ r.sync_status = Null

BatchIds(batch) == {batch[k].id : k \in 1..Len(batch)}

\* the outcome of a dispatched item has been applied: its row is gone after a
\* success or a move to the dead-letter queue, or carries the next retry_count
Applied(item) ==
    \/ item.id \notin QueueIds /\ (item.id \in SucceededIds \/ item.id \in DeadIds)
    \/ \E r \in Range(sync_queue) :
         r.id = item.id /\ r.retry_count = item.retry_count + 1

\* C12: within one sync() call the batches are submitted one at a time in
\* batch order: what has been sent is exactly the batches up to the one in
\* hand, and the outcome of every item of every earlier batch has been applied.
C12_BatchesOneAtATime ==
    \A p \in Passes :
        batchIdx[p] >= 1 =>
            LET upTo == IF pc[p] = "post" THEN batchIdx[p] - 1 ELSE batchIdx[p]
            IN /\ sent[p] = UNION {BatchIds(Batches(p)[j]) : j \in 1..upTo}
               /\ \A j \in 1..(batchIdx[p] - 1) :
                    \A k \in 1..Len(Batches(p)[j]) : Applied(Batches(p)[j][k])

\* The second batch of a sync() call has been submitted.
C12_Witness ==
    \E p \in Passes : batchIdx[p] = 2 /\ pc[p] = "item"

\* C13: the step that handles an error outcome below the retry budget leaves
\* the mutation's row in the queue with a retry_count one above the stored one
\* and with the triggering reason as error_message, and the step after it sets
\* the owning task's sync_status to 'error'.
C13_RetryCountIncremented ==
    [][\A p \in Passes :
        /\ (pc[p] = "item" /\ pc'[p] = "retry_mark") =>
             \E r \in Range(sync_queue), w \in Range(sync_queue') :
                 /\ r.id = Batch(p)[idx[p]].id
                 /\ w.id = r.id
                 /\ w.retry_count = r.retry_count + 1
                 /\ w.error_message = cur'[p].message
        /\ (pc[p] = "retry_mark" /\ pc'[p] # "retry_mark") =>
             tasks'[Batch(p)[idx[p]].task_id].sync_status = "error"]_vars

\* C14: the step that handles an error outcome for a mutation whose stored
\* retry_count plus one reaches maxRetries appends one dead-letter row that
\* carries the queue row's id, task_id, operation, created_at and retry_count
\* and the triggering reason; the next step removes the queue row; the step
\* after it sets the owning task's sync_status to 'failed'.
C14_MovedToDeadLetter ==
    [][\A p \in Passes :
        /\ (pc[p] = "item" /\ pc'[p] \in {"retry_mark", "dead_letter_remove"}) =>
             \A r \in Range(sync_queue) :
                 (r.id = Batch(p)[idx[p]].id /\ r.retry_count + 1 >= maxRetries) =>
                      /\ pc'[p] = "dead_letter_remove"
                      /\ Len(dead_letter') = Len(dead_letter) + 1
                      /\ LET d == dead_letter'[Len(dead_letter')]
                         IN /\ d.original_sync_queue_id = r.id
                            /\ d.task_id = r.task_id
                            /\ d.operation = r.operation
                            /\ d.created_at = r.created_at
                            /\ d.retry_count = r.retry_count
                            /\ d.error_message = cur'[p].message
        /\ (pc[p] = "dead_letter_remove" /\ pc'[p] # "dead_letter_remove") =>
             Batch(p)[idx[p]].id \notin {r.id : r \in Range(sync_queue')}
        /\ (pc[p] = "failed_mark" /\ pc'[p] # "failed_mark") =>
             tasks'[Batch(p)[idx[p]].task_id].sync_status = "failed"]_vars

\* C15: every step keeps the rows of the dead-letter queue as they are and adds
\* rows only at its end; a mutation that has a dead-letter row and has left the
\* sync queue does not come back to it; and no batch that is submitted contains
\* a mutation that has a dead-letter row.
C15_DeadLetterTerminal ==
    [][/\ Len(dead_letter') >= Len(dead_letter)
       /\ SubSeq(dead_letter', 1, Len(dead_letter)) = dead_letter
       /\ \A id \in DeadIds \ QueueIds : id \notin {r.id : r \in Range(sync_queue')}
       /\ \A p \in Passes :
            (pc[p] = "post" /\ pc'[p] # "post") => BatchIds(Batch(p)) \cap DeadIds = {}]_vars

\* sync() call p is in the catch block of processBatchWithChecksum
InCatch(p) ==
    caught[p] # Null /\ pc[p] \in {"item", "retry_mark", "dead_letter_remove", "failed_mark"}

\* error handling has run once for the item: the row carries the next
\* retry_count, or it has one dead-letter row (and is on its way out of the queue)
ErrorHandledOnce(item) ==
    \/ \E r \in Range(sync_queue) : r.id = item.id /\ r.retry_count = item.retry_count + 1
    \/ Cardinality({k \in 1..Len(dead_letter) :
                       dead_letter[k].original_sync_queue_id = item.id}) = 1

\* the item's row is as the call read it
AsRead(item) ==
    /\ item.id \notin DeadIds
    /\ \E r \in Range(sync_queue) : r.id = item.id /\ r.retry_count = item.retry_count

\* C16: while a sync() call handles a batch whose submission was rejected, the
\* items of the batch before the one in hand have had error handling once, the
\* items after it and the items of later batches are as they were read, and
\* failed_items of the batch counts the items handled; the step that ends the
\* batch adds the batch size to the call's failed_items and either goes on to
\* submit the next batch or returns success = false.
C16_TransportFailure ==
    /\ [](\A p \in Passes : InCatch(p) =>
            LET n == IF pc[p] = "item" THEN idx[p] - 1 ELSE idx[p]
            IN /\ \A k \in 1..(idx[p] - 1) : ErrorHandledOnce(Batch(p)[k])
               /\ pc[p] # "item" => ErrorHandledOnce(Batch(p)[idx[p]])
               /\ \A k \in (n + 1)..Len(Batch(p)) : AsRead(Batch(p)[k])
               /\ \A j \in (batchIdx[p] + 1)..Len(Batches(p)) :
                    \A k \in 1..Len(Batches(p)[j]) : AsRead(Batches(p)[j][k])
               /\ batchResult[p].failed_items = idx[p] - 1
               /\ batchResult[p].synced_items = 0)
    /\ [][\A p \in Passes :
            (InCatch(p) /\ ~InCatch(p)') =>
                /\ result'[p].failed_items = result[p].failed_items + Len(Batch(p))
                /\ IF batchIdx[p] < Len(Batches(p))
                   THEN pc'[p] = "post" /\ batchIdx'[p] = batchIdx[p] + 1
                   ELSE pc'[p] = "done" /\ ~result'[p].success]_vars

\* The first of two batches was rejected and handled, and the second batch has
\* been submitted.
C16_Witness ==
    \E p \in Passes :
        /\ batchIdx[p] = 2
        /\ pc[p] = "item"
        /\ result[p].failed_items = Len(Batches(p)[1])
        /\ Len(result[p].errors) = 1
        /\ result[p].errors[1].error = "Network error"

\* what sync() call p has counted so far: the folded batches and the batch in hand
FailedSoFar(p) == result[p].failed_items + batchResult[p].failed_items
ErrorsSoFar(p) == result[p].errors \o batchResult[p].errors

\* C17: the step that ends the handling of a mutation with no outcome at its
\* position has raised its retry_count or moved it to the dead-letter queue,
\* adds one to failed_items, and adds to the error list one entry for the
\* mutation with the reason 'No response from server'.
C17_MissingOutcomeIsError ==
    [][\A p \in Passes :
        (pc[p] \in {"retry_mark", "failed_mark"} /\ pc'[p] # pc[p]
                                                /\ cur[p].kind = "missing") =>
            LET item == Batch(p)[idx[p]]
            IN /\ ErrorHandledOnce(item)
               /\ FailedSoFar(p)' = FailedSoFar(p) + 1
               /\ Len(ErrorsSoFar(p)') = Len(ErrorsSoFar(p)) + 1
               /\ LET e == ErrorsSoFar(p)'[Len(ErrorsSoFar(p)')]
                  IN e.task_id = item.task_id /\ e.error = "No response from server"]_vars

----------------------------------------------------------------------------
\* the pass reads, inside the try block, an outcome that is neither of the two
\* outcomes of Plain: it starts no success handling and no error handling with
\* the remote's reason
MalformedStep(p) ==
    /\ pc[p] = "item" /\ caught[p] = Null /\ PassStep(p)
    /\ succeeded' = succeeded
    /\ cur'[p].message # "remote error"

\* C18: an outcome outside the contract (a status that is none of success,
\* conflict and error, or a conflict without the remote state) is treated as an
\* error for its mutation only: reading it starts the error handling of that
\* mutation and of no other (no batch-wide catch), and that handling increments
\* the retry count or escalates, and adds one to failed_items
C18_MalformedOutcomeIsError ==
    [][\A p \in Passes :
        /\ MalformedStep(p) => (cur'[p].kind = "error" /\ caught'[p] = Null)
        /\ (pc[p] \in {"retry_mark", "failed_mark"} /\ pc'[p] # pc[p]
                                                /\ cur[p].kind = "error") =>
               (ErrorHandledOnce(Batch(p)[idx[p]])
                /\ FailedSoFar(p)' = FailedSoFar(p) + 1)]_vars

----------------------------------------------------------------------------
\* the step of sync() call p that ends handleSyncSuccess for an outcome of the
\* given kind: the awaited removeFromSyncQueue, which is the handler's first
\* awaited statement when the outcome carries neither a resolved state nor a
\* remote id
SuccessApplied(p, kind) ==
    \/ pc[p] = "success_remove" /\ pc'[p] # pc[p] /\ cur[p].kind = kind
    \/ /\ kind = "success"
       /\ pc[p] = "item" /\ PassStep(p) /\ pc'[p] # "success_remove"
       /\ succeeded' # succeeded

\* C19: once a success outcome has been applied to a mutation, its row is out
\* of the sync queue and the owning task's sync_status is 'synced', whatever
\* the operation and whether or not the outcome carries a remote id or a
\* resolved state
C19_SuccessApplied ==
    [][\A p \in Passes :
        SuccessApplied(p, "success") =>
            LET item == Batch(p)[idx[p]]
            IN /\ item.id \notin {r.id : r \in Range(sync_queue')}
               /\ tasks'[item.task_id].sync_status = "synced"]_vars

----------------------------------------------------------------------------
SyncedSoFar(p) == result[p].synced_items + batchResult[p].synced_items

\* C20: a conflict outcome is resolved, not failed. Whichever side wins, the
\* step that starts its handling writes the merged state with sync_status
\* 'synced' and leaves the queue and the dead-letter queue alone; the step
\* that ends it removes the mutation's row, whose retry_count is still the one
\* the call read, adds one to synced_items and nothing to failed_items, and
\* appends one entry for the task to the error list.
C20_ConflictResolved ==
    [][\A p \in Passes :
        /\ (pc[p] = "item" /\ pc'[p] = "success_remove" /\ cur'[p].kind = "conflict") =>
              /\ tasks'[Batch(p)[idx[p]].task_id].sync_status = "synced"
              /\ sync_queue' = sync_queue
              /\ dead_letter' = dead_letter
              /\ FailedSoFar(p)' = FailedSoFar(p)
        /\ SuccessApplied(p, "conflict") =>
              LET item == Batch(p)[idx[p]]
              IN /\ \A r \in Range(sync_queue) :
                       r.id = item.id => r.retry_count = item.retry_count
                 /\ item.id \notin {r.id : r \in Range(sync_queue')}
                 /\ item.id \notin {d.original_sync_queue_id : d \in Range(dead_letter')}
                 /\ tasks'[item.task_id].sync_status = "synced"
                 /\ SyncedSoFar(p)' = SyncedSoFar(p) + 1
                 /\ FailedSoFar(p)' = FailedSoFar(p)
                 /\ Len(ErrorsSoFar(p)') = Len(ErrorsSoFar(p)) + 1
                 /\ LET e == ErrorsSoFar(p)'[Len(ErrorsSoFar(p)')]
                    IN /\ e.task_id = item.task_id
                       /\ e.error = "Conflict resolved using last-write-wins"]_vars

\* A sync() call has returned after resolving a conflict: the row is gone, the
\* task is 'synced', the call reports success with one entry in its error list.
C20_Witness ==
    \E p \in Passes :
        /\ pc[p] = "done"
        /\ result[p].success
        /\ Len(result[p].errors) = 1
        /\ result[p].errors[1].error = "Conflict resolved using last-write-wins"
        /\ tasks[result[p].errors[1].task_id].sync_status = "synced"
        /\ sync_queue = <<>>
        /\ dead_letter = <<>>

----------------------------------------------------------------------------
\* C25: a sync() call that runs while the sync queue holds no eligible row
\* returns synced_items = 0, failed_items = 0 and success = true, and the step
\* that returns changes neither the sync queue, nor the dead-letter queue, nor
\* the tasks
C25_EmptyQueuePass ==
    [][\A p \in Passes :
        (pc[p] \in {"probe", "drain"} /\ pc'[p] = "done" /\ Eligible(sync_queue) = {}) =>
            /\ result'[p].synced_items = 0
            /\ result'[p].failed_items = 0
            /\ result'[p].success
            /\ UNCHANGED <<sync_queue, dead_letter, tasks>>]_vars

\* C26: a sync() call makes no request to the remote while the sync queue
\* holds no eligible row: the health probe is made, and a batch is posted,
\* only when there is an eligible row
C26_EmptyQueueNoNetwork ==
    [][\A p \in Passes :
        ((pc[p] = "probe" /\ pc'[p] # "probe") \/ (pc[p] = "post" /\ pc'[p] # "post"))
            => Eligible(sync_queue) # {}]_vars

----------------------------------------------------------------------------
\* C27: checkConnectivity never raises and changes no state. Whatever its
\* request comes to, the step changes no table; when the health endpoint has
\* answered the call goes on to read the queue with its result untouched;
\* when the request failed in any way the only error sync() reports is its
\* own 'No network connectivity', which it throws on the value false.
C27_ProbeNeverRaises ==
    [][\A p \in Passes :
        (pc[p] = "probe" /\ pc'[p] # "probe") =>
            /\ UNCHANGED dbVars
            /\ IF probeOk'[p]
               THEN pc'[p] = "drain" /\ result'[p] = result[p]
               ELSE /\ pc'[p] = "done"
                    /\ result'[p].errors =
                         <<SyncError("global", "sync", "No network connectivity")>>]_vars

\* A sync() call has returned after a probe that failed.
C27_Witness ==
    \E p \in Passes : pc[p] = "done" /\ ~probeOk[p] /\ ~result[p].success

----------------------------------------------------------------------------
\* SyncService.getSyncStatus, as an observer of the tables sees it (lastSync
\* left out): pending counts the rows below the retry budget, inProgress and
\* errors are the literals of the return statement
getSyncStatus ==
    [pending |-> Cardinality({k \in 1..Len(sync_queue) :
                                sync_queue[k].retry_count < maxRetries}),
     inProgress |-> 0,
     errors |-> 0,
     deadLetter |-> Len(dead_letter)]

\* the rows sync() call p has marked and whose outcome it has not handled yet
Unreconciled(p) ==
    {id \in drained[p] :
        /\ id \in QueueIds
        /\ id \notin DeadIds
        /\ \A k \in 1..Len(pendingItems[p]) :
              pendingItems[p][k].id = id =>
                  \E r \in Range(sync_queue) :
                      r.id = id /\ r.retry_count = pendingItems[p][k].retry_count}

\* C30: once a sync() call has marked what it fetched, and until it returns,
\* every fetched row not yet reconciled carries sync_status 'in-progress' and
\* getSyncStatus reports their number as inProgress; the marking writes no
\* retry_count
C30_InProgressVisible ==
    /\ [](\A p \in Passes :
            pc[p] \in {"post", "item"} =>
                /\ \A r \in Range(sync_queue) :
                      r.id \in Unreconciled(p) => r.sync_status = "in-progress"
                /\ getSyncStatus.inProgress = Cardinality(Unreconciled(p)))
    /\ [][\A p \in Passes :
            (pc[p] = "mark" /\ PassStep(p)) =>
                \A r \in Range(sync_queue) : \A w \in Range(sync_queue') :
                    w.id = r.id => w.retry_count = r.retry_count]_vars

----------------------------------------------------------------------------
(* Conflict resolution *)

Resolving == call.fn = "resolveConflictWithPriority"

\* both versions carry an updated_at
Comparable == getTime(call.localTask) # NaN /\ getTime(call.serverTask) # NaN

\* the merged title, description and completed are those of version
FieldValuesOf(merged, version) ==
    /\ merged.title = version.title
    /\ merged.description = version.description
    /\ merged.completed = version.completed

\* C21: when the local and the remote updated_at are equal the local version
\* wins: the merged title, description and completed are the local ones
C21_TieLocalWins ==
    (Resolving /\ Comparable /\ getTime(call.localTask) = getTime(call.serverTask)) =>
        FieldValuesOf(call.resolvedTask, call.localTask)

\* The resolver has run on two versions with the same updated_at whose titles
\* differ.
C21_Witness ==
    /\ Resolving /\ Comparable
    /\ getTime(call.localTask) = getTime(call.serverTask)
    /\ call.localTask.title # call.serverTask.title

\* C22: for versions with the local updated_at later than the remote one,
\* every run of the resolver returns the local field values with sync_status
\* 'synced', and two runs differ in updated_at and last_synced_at at most
C22_Deterministic ==
    (Resolving /\ Comparable /\ getTime(call.localTask) > getTime(call.serverTask)) =>
        /\ FieldValuesOf(call.resolvedTask, call.localTask)
        /\ FieldValuesOf(call.rerun, call.localTask)
        /\ call.resolvedTask.sync_status = "synced"
        /\ call.rerun.sync_status = "synced"
        /\ DOMAIN call.resolvedTask = DOMAIN call.rerun
        /\ \A key \in DOMAIN call.resolvedTask \ {"updated_at", "last_synced_at"} :
              call.resolvedTask[key] = call.rerun[key]

\* The resolver has run twice, at different times, on versions of which the
\* local one is the later.
C22_Witness ==
    /\ Resolving /\ Comparable
    /\ getTime(call.localTask) > getTime(call.serverTask)
    /\ call.resolvedTask.updated_at # call.rerun.updated_at

\* C23: when the local version wins and the remote state carries a remote id,
\* the merged task has the remote state's identifier, and it is the server_id
\* the task row holds after handleSyncSuccess
C23_RemoteIdAdopted ==
    (/\ Resolving /\ Comparable
     /\ getTime(call.localTask) >= getTime(call.serverTask)
     /\ call.serverTask.server_id # NoId) =>
        /\ call.resolvedTask.id = call.serverTask.id
        /\ call.resolvedTask.server_id = call.serverTask.server_id
        /\ tasks[call.task_id].server_id = call.serverTask.server_id

\* C24: when the remote updated_at is later than the local one the merged
\* task has the remote title, description and completed, the remote id and
\* the remote server_id
C24_RemoteWins ==
    (Resolving /\ Comparable /\ getTime(call.serverTask) > getTime(call.localTask)) =>
        /\ FieldValuesOf(call.resolvedTask, call.serverTask)
        /\ call.resolvedTask.id = call.serverTask.id
        /\ call.resolvedTask.server_id = call.serverTask.server_id

\* The resolver has run on a later remote version whose remote id is not the
\* local one.
C24_Witness ==
    /\ Resolving /\ Comparable
    /\ getTime(call.serverTask) > getTime(call.localTask)
    /\ call.serverTask.server_id # call.localTask.server_id

----------------------------------------------------------------------------
(* Batching and the batch checksum *)

Batching == call.fn = "createChronologicalBatches"

RECURSIVE Flatten(_, _)
\* the batches from the k-th on, one after the other
Flatten(batches, k) ==
    IF k > Len(batches) THEN <<>> ELSE batches[k] \o Flatten(batches, k + 1)

\* C28: for every list of items and every batch size of at least one, the
\* batches, one after the other, are the list; no batch is empty, none has
\* more than batchSize items, and every batch but the last has batchSize items
C28_BatchesPartition ==
    Batching =>
        /\ Flatten(call.batches, 1) = call.items
        /\ \A k \in 1..Len(call.batches) :
              /\ Len(call.batches[k]) >= 1
              /\ Len(call.batches[k]) <= batchSize
              /\ k < Len(call.batches) => Len(call.batches[k]) = batchSize

\* A list has been cut into more than one batch, the last one short.
C28_Witness ==
    /\ Batching
    /\ Len(call.batches) >= 2
    /\ Len(call.batches[Len(call.batches)]) < batchSize

Summing == call.fn = "createBatchChecksum"

\* C29: the checksum is a function of the ordered (id, task_id, operation,
\* created_at) parts alone: computed again over the same batch it is the
\* same, and it changes when two items that differ change places
C29_ChecksumOfOrderedItems ==
    Summing =>
        /\ call.again = call.checksum
        /\ call.swapped # call.items => call.swappedChecksum # call.checksum
        /\ call.swapped = call.items => call.swappedChecksum = call.checksum

\* The checksum has been computed over a batch and over the same batch with
\* two items exchanged that differ in their creation time only.
C29_Witness ==
    /\ Summing
    /\ Len(call.items) = 2
    /\ call.swapped # call.items
    /\ call.items[1].created_at # call.items[2].created_at
    /\ [call.items[1] EXCEPT !.created_at = 0] = [call.items[2] EXCEPT !.created_at = 0]

----------------------------------------------------------------------------
(* SyncService.getDeadLetterQueue *)

\* Every row order SELECT * FROM sync_dead_letter_queue ORDER BY failed_at DESC
\* may return: each row once, a later failed_at first; failed_at is the
\* CURRENT_TIMESTAMP of the insert, and rows with the same one come in an
\* order SQL leaves open
getDeadLetterQueue ==
    LET n == Len(dead_letter)
    IN {s \in [1..n -> Range(dead_letter)] :
          /\ \A i, j \in 1..n : i # j => s[i] # s[j]
          /\ \A i, j \in 1..n : i < j => s[i].failed_at >= s[j].failed_at}

\* C31: whatever list getDeadLetterQueue returns, it has every dead-letter row
\* once, and a row escalated later (inserted later) stands before every row
\* escalated earlier
C31_NewestFailureFirst ==
    \A s \in getDeadLetterQueue :
        /\ Len(s) = Len(dead_letter)
        /\ Range(s) = Range(dead_letter)
        /\ \A i, j \in 1..Len(dead_letter) :
              i < j => \E a, b \in 1..Len(s) :
                          a < b /\ s[a] = dead_letter[j] /\ s[b] = dead_letter[i]

----------------------------------------------------------------------------
----------------------------------------------------------------------------
\* the step is a createTask, updateTask or deleteTask that succeeded
TaskServiceStep ==
    /\ call' # call
    /\ call'.fn \in {"createTask", "updateTask", "deleteTask"}

\* C33: every createTask, updateTask and deleteTask that succeeds adds one row
\* to the sync queue, for its task and with its operation
C33_MutationEnqueued ==
    [][TaskServiceStep =>
        /\ Len(sync_queue') = Len(sync_queue) + 1
        /\ sync_queue'[Len(sync_queue')].task_id = call'.task_id
        /\ sync_queue'[Len(sync_queue')].operation = call'.operation]_vars

----------------------------------------------------------------------------
\* C34: escalation is one atomic transition: in no state is a mutation both
\* in the sync queue and in the dead-letter queue, and in no state does a
\* sync() call have the dead-letter row of the escalation in hand written
\* while the owning task is not yet 'failed'
C34_EscalationAtomic ==
    /\ QueueIds \cap DeadIds = {}
    /\ \A p \in Passes :
          pc[p] \in {"dead_letter_remove", "failed_mark"} =>
              tasks[Batch(p)[idx[p]].task_id].sync_status = "failed"

\* C35: every row of the sync queue has 0 <= retry_count < maxRetries, so the
\* pending count of getSyncStatus is the number of rows of the queue
C35_RetryCountBelowBudget ==
    /\ \A r \in Range(sync_queue) : 0 <= r.retry_count /\ r.retry_count < maxRetries
    /\ getSyncStatus.pending = Len(sync_queue)

\* Two rows are queued, one of them on its last retry.
C35_Witness ==
    /\ Len(sync_queue) = 2
    /\ \E r \in Range(sync_queue) : r.retry_count = maxRetries - 1
    /\ getSyncStatus.pending = 2

----------------------------------------------------------------------------
\* the step with which sync() call p returns
Returns(p) == pc[p] # "done" /\ pc'[p] = "done"

\* C36: a task whose sync_status is 'synced' has no mutation left in the sync
\* queue once the sync() call is over: when a call returns, no task of a
\* mutation it read and left in the queue is 'synced'
C36_SyncedHasNoQueuedMutation ==
    [][\A p \in Passes :
        Returns(p) =>
            \A r \in Range(sync_queue') :
                r.id \in drained[p] => tasks'[r.task_id].sync_status # "synced"]_vars

\* C37: for every sync() call that has passed the probe, synced_items plus
\* failed_items of the result is the number of mutations the call read
C37_CountsAddUp ==
    [][\A p \in Passes :
        (Returns(p) /\ probeOk[p] /\ pc[p] # "probe") =>
            result'[p].synced_items + result'[p].failed_items = Cardinality(drained[p])]_vars

----------------------------------------------------------------------------
\* C38: within a batch a mutation gets one kind of handling: error handling
\* (in the catch block, after a later item of the batch raised an exception)
\* is never in progress for a mutation whose success or resolved conflict has
\* been applied
C38_OneKindOfHandling ==
    \A p \in Passes :
        (InCatch(p) /\ pc[p] \in {"retry_mark", "dead_letter_remove", "failed_mark"}) =>
            Batch(p)[idx[p]].id \notin SucceededIds

\* C39: when a sync() call returns, the task of every mutation the call has
\* moved to the dead-letter queue has sync_status 'failed'
C39_DeadLetteredTaskFailed ==
    [][\A p \in Passes :
        Returns(p) =>
            \A d \in Range(dead_letter') :
                d.original_sync_queue_id \in drained[p] =>
                    tasks'[d.task_id].sync_status = "failed"]_vars

\* C40: every dead-letter row records retry_count = maxRetries - 1, the count
\* the call read; its id is the one made from the queue id, and no two rows
\* come from the same queue row
C40_DeadLetterRowShape ==
    \A i, j \in 1..Len(dead_letter) :
        /\ dead_letter[i].retry_count = maxRetries - 1
        /\ dead_letter[i].id = dead_letter[i].original_sync_queue_id
        /\ dead_letter[i].original_sync_queue_id = dead_letter[j].original_sync_queue_id
              => i = j

\* Two mutations have been moved to the dead-letter queue.
C40_Witness ==
    Len(dead_letter) = 2
====
